---- MODULE Spec2Model ----
(***************************************************************************)
(* Model of src/one_stop_shop.py: a Streamlit script (main) that is re-run *)
(* from its first line on every user interaction, the placeholder edge     *)
(* model (dummy_edge_calc) and the slate-risk evaluation of "Run Model".   *)
(*                                                                         *)
(* Numbers.  Python floats are modelled by exact rationals:                *)
(*   - a probability is an integer number of ten-thousandths (0.45 = 4500),*)
(*   - a break-even probability is a pair <<numerator, denominator>>,      *)
(*   - a value returned by round(x * 100, 1) is an integer number of       *)
(*     tenths of a percent (45.3 % = 453),                                 *)
(* in dummy_edge_calc, whose claims are about the formula it evaluates.     *)
(* The slate risk is compared with a cap, where the last bit decides, so   *)
(* it is computed as Python computes it, in IEEE-754 binary64 with         *)
(* round-to-nearest-even:                                                  *)
(*   - a stake is a whole number of sixteenths of a unit (exact doubles),  *)
(*   - a risk is a double whose value is sign * m * 2^-63, m an integer    *)
(*     held in three limbs of 21 bits, least significant first.            *)
(***************************************************************************)
EXTENDS Integers, Sequences, FiniteSets

VARIABLES
    df_has_append,  \* build: does the installed pandas still have DataFrame.append
    w,              \* widget values kept by the session between runs
    clicked,        \* the button that triggered the last run ("none": a widget change)
    fetched,        \* what fetch_mlb_schedule did in the last run
    outcome,        \* how the last run of main ended
    screen,         \* the elements the last run rendered, in order
    dk_df,          \* dk_df as it stood at line 115 of the last run
    edited_df,      \* what st.data_editor returned in the last run
    results,        \* the rows of res_df of the last run
    total_risk,     \* total_risk of the last run (a double)
    added,          \* history: the odds of the props added with "Add prop" for this
                    \* date and game, in the order they were added
    out             \* the last call of dummy_edge_calc (its input and what it returned)

vars == <<df_has_append, w, clicked, fetched, outcome, screen, dk_df, edited_df,
          results, total_risk, added, out>>

\* ----------------------------- CONFIG ----------------------------------
\* 0.01 is the double 0x1.47ae147ae147bp-7: this significand times 2^-59
MAX_UNIT_PCT == <<922747, 1509949, 1310>>
\* 0.05 is the double 0x1.999999999999ap-5, here in units of 2^-63
MAX_SLATE_PCT == [neg |-> FALSE, m |-> <<419456, 1258291, 104857>>]
TRUE_P_LO == 4500
TRUE_P_HI == 6500

\* ------------------------------ bounds ----------------------------------
MaxGames == 2
MaxAdds == 2
MaxRows == 3
MaxOdds == 120

\* ------------------------------ inputs ----------------------------------
Dates == {1, 2}
PlayerInputs == {"", "Cole"}
MARKETS == {"K", "Outs", "Total Bases", "HR", "Hits"}
MarketInputs == {"K", "HR"}
SessionOdds == {0, -120, 150}
\* stakes in sixteenths of a unit: -1, 0, 1, 1.0625, 1.75, 2, 2.1875, 3
StakeInputs == {-16, 0, 16, 17, 28, 32, 35, 48}
EvalOdds == {-120}
EvalDraws == {TRUE_P_LO, TRUE_P_HI}
OddsInputs == (-MaxOdds .. MaxOdds) \cup {-1000, -200, -150, 150, 200, 1000}
TrueProbDraws == {p \in TRUE_P_LO .. TRUE_P_HI : p % 5 = 0}

None == [kind |-> "none"]

Abs(x) == IF x < 0 THEN -x ELSE x

\* round(n / d, 0) for d > 0, a tie going to the even neighbour as Python's round does
RoundHalfEven(n, d) ==
    LET q == n \div d
        r == n % d
    IN  IF 2 * r < d THEN q
        ELSE IF 2 * r > d THEN q + 1
        ELSE IF q % 2 = 0 THEN q ELSE q + 1

\* ----------------------- MODEL PLACEHOLDER -----------------------------
BreakEvenOneBranch(odds) == <<100, Abs(odds) + 100>>

\* be = 100 / (odds + 100) if odds > 0 else abs(odds) / (abs(odds) + 100)
BreakEven(odds) ==
    IF odds > 0 THEN <<100, odds + 100>> ELSE <<Abs(odds), Abs(odds) + 100>>

DummyEdgeCalcFromRounded(odds, true_p) ==
    LET be == BreakEven(odds)
        tp == RoundHalfEven(true_p, 10)
    IN  [kind |-> "returned", odds |-> odds, true_p |-> true_p, be |-> be,
         true_prob_pct |-> tp,
         edge_pct |-> RoundHalfEven(tp * 10 * be[2] - 10000 * be[1], 10 * be[2])]

\* dummy_edge_calc(row) with random.uniform having drawn true_p:
\* edge = true_p - be; return round(true_p * 100, 1), round(edge * 100, 1)
DummyEdgeCalc(odds, true_p) ==
    LET be == BreakEven(odds)
    IN  [kind |-> "returned", odds |-> odds, true_p |-> true_p, be |-> be,
         true_prob_pct |-> RoundHalfEven(true_p, 10),
         edge_pct |-> RoundHalfEven(true_p * be[2] - 10000 * be[1], 10 * be[2])]


\* ------------------- binary64 arithmetic on risks ----------------------
LimbBase == 2^21

\* carries (or borrows) propagated from the low limb up
MagNorm(a, b, c) ==
    LET b1 == b + (a \div LimbBase)
        c1 == c + (b1 \div LimbBase)
    IN  <<a % LimbBase, b1 % LimbBase, c1>>

MagAdd(x, y) == MagNorm(x[1] + y[1], x[2] + y[2], x[3] + y[3])

\* x - y for x >= y
MagSub(x, y) == MagNorm(x[1] - y[1], x[2] - y[2], x[3] - y[3])

MagLess(x, y) ==
    \/ x[3] < y[3]
    \/ x[3] = y[3] /\ x[2] < y[2]
    \/ x[3] = y[3] /\ x[2] = y[2] /\ x[1] < y[1]

MagMulSmall(k, x) == MagNorm(k * x[1], k * x[2], k * x[3])

RECURSIVE Bits(_)
Bits(n) == IF n = 0 THEN 0 ELSE 1 + Bits(n \div 2)

BitLen(x) ==
    IF x[3] > 0 THEN 42 + Bits(x[3])
    ELSE IF x[2] > 0 THEN 21 + Bits(x[2])
    ELSE Bits(x[1])

\* the nearest integer with at most 53 significant bits, a tie going to the even one
Round53(x) ==
    IF BitLen(x) <= 53 THEN x
    ELSE LET sh == BitLen(x) - 53
             r == x[1] % (2^sh)
             odd == (x[1] \div (2^sh)) % 2 = 1
             up == 2 * r > 2^sh \/ (2 * r = 2^sh /\ odd)
         IN  MagNorm(x[1] - r + (IF up THEN 2^sh ELSE 0), x[2], x[3])

FZero == [neg |-> FALSE, m |-> <<0, 0, 0>>]

\* x + y
FAdd(x, y) ==
    IF x.neg = y.neg THEN [neg |-> x.neg, m |-> Round53(MagAdd(x.m, y.m))]
    ELSE IF MagLess(x.m, y.m) THEN [neg |-> y.neg, m |-> Round53(MagSub(y.m, x.m))]
    ELSE [neg |-> x.neg /\ x.m # y.m, m |-> Round53(MagSub(x.m, y.m))]

\* stake * unit for a stake of k sixteenths and unit = significand * 2^-59:
\* (k * 2^-4) * (significand * 2^-59) = k * significand * 2^-63, rounded once
FMulStake(k, unit) ==
    [neg |-> k < 0, m |-> Round53(MagMulSmall(Abs(k), unit))]

\* x > y
FGreater(x, y) ==
    IF x.neg # y.neg THEN ~x.neg /\ (x.m # FZero.m \/ y.m # FZero.m)
    ELSE IF x.neg THEN MagLess(x.m, y.m)
    ELSE MagLess(y.m, x.m)

\* ------------------------------ UI -------------------------------------
\* the value of the manual-entry widgets as the row "Add prop" appends
PropRow(wv) ==
    [player |-> wv.player, market |-> wv.market, line |-> wv.line, odds |-> wv.odds]

\* dk_df["stake"] = 0.0
WithStake(df) ==
    [i \in 1 .. Len(df) |->
        [player |-> df[i].player, market |-> df[i].market, line |-> df[i].line,
         odds |-> df[i].odds, stake |-> 0]]

\* {**r, "true_prob%": true_p, "edge%": edge}
ResultRow(r, c) ==
    [player |-> r.player, market |-> r.market, line |-> r.line, odds |-> r.odds,
     stake |-> r.stake, true_prob_pct |-> c.true_prob_pct, edge_pct |-> c.edge_pct]

\* for _, r in edited_df.iterrows(): results.append(...); total_risk += ...
RECURSIVE Iterrows(_, _, _, _, _)
Iterrows(edited, draws, i, res, total) ==
    IF i > Len(edited) THEN [results |-> res, total_risk |-> total]
    ELSE Iterrows(edited, draws, i + 1,
                  Append(res, ResultRow(edited[i], DummyEdgeCalc(edited[i].odds, draws[i]))),
                  FAdd(total, FMulStake(edited[i].stake, MAX_UNIT_PCT)))

RunModelWarnInstead(edited, draws) ==
    LET l == Iterrows(edited, draws, 1, <<>>, FZero)
    IN  IF FGreater(l.total_risk, MAX_SLATE_PCT)
        THEN [results |-> <<>>, total_risk |-> l.total_risk, rendered |-> <<"warning">>]
        ELSE [results |-> l.results, total_risk |-> l.total_risk,
              rendered |-> <<"write_results", "dataframe_results">>]

\* the body of `if st.button("Run Model"):` over the table the editor returned
RunModel(edited, draws) ==
    LET l == Iterrows(edited, draws, 1, <<>>, FZero)
    IN  [results |-> l.results, total_risk |-> l.total_risk,
         rendered |-> <<"write_results", "dataframe_results">>
                      \o (IF FGreater(l.total_risk, MAX_SLATE_PCT) THEN <<"warning">> ELSE <<>>)]

\* fetch_mlb_schedule: the request raises (timeout, network failure), or the
\* response holds some number of games
FetchOutcomes ==
    {[ok |-> FALSE, games |-> 0]} \cup {[ok |-> TRUE, games |-> n] : n \in 0 .. MaxGames}

\* pull_dk_props: the stub returns an empty table for every game
PullDkProps(game_pk) == <<>>

\* st.data_editor: the table with the user's edits when the widget was already on
\* screen with the same data, otherwise the table as passed
DataEditor(df, edits) ==
    IF Len(edits) > 0 /\ Len(edits) >= Len(df)
       /\ \A i \in 1 .. Len(df) : PropRow(edits[i]) = df[i]
    THEN edits
    ELSE WithStake(df)

Rendered(els, how, dk, ed, rm) ==
    [outcome |-> how, screen |-> els, dk_df |-> dk, edited_df |-> ed,
     results |-> rm.results, total_risk |-> rm.total_risk]

NoRun == [results |-> <<>>, total_risk |-> FZero, rendered |-> <<>>]

MainNoReturn(fetch, wv, trigger, edits, draws) ==
    LET top == <<"title", "date_input">>
        manual == <<"info", "text_input_player", "selectbox_market", "text_input_line",
                    "number_input_odds", "button_add_prop">>
    IN  IF ~fetch.ok THEN Rendered(top, "exception", <<>>, <<>>, NoRun)
        ELSE IF fetch.games = 0
        THEN Rendered(top \o <<"error", "selectbox_game">>, "exception", <<>>, <<>>, NoRun)
        ELSE Rendered(top \o <<"selectbox_game", "subheader">> \o manual,
                      "completed", <<>>, <<>>, NoRun)

\* one run of main(): `trigger` is the button whose click caused the run
Main(fetch, wv, trigger, edits, draws) ==
    LET top == <<"title", "date_input">>
        manual == <<"info", "text_input_player", "selectbox_market", "text_input_line",
                    "number_input_odds", "button_add_prop">>
    IN  IF ~fetch.ok THEN Rendered(top, "exception", <<>>, <<>>, NoRun)
        ELSE IF fetch.games = 0
        THEN Rendered(top \o <<"error">>, "returned", <<>>, <<>>, NoRun)
        ELSE
        LET s1 == top \o <<"selectbox_game", "subheader">>
            dk0 == PullDkProps(wv.choice)
            s2 == IF dk0 = <<>> THEN s1 \o manual ELSE s1
            adding == dk0 = <<>> /\ trigger = "add_prop"
            dk1 == IF adding THEN Append(dk0, PropRow(wv)) ELSE dk0
        IN  IF adding /\ ~df_has_append
            THEN Rendered(s2, "exception", dk0, <<>>, NoRun)
            ELSE IF dk1 = <<>>
            THEN Rendered(s2, "completed", dk1, <<>>, NoRun)
            ELSE
            LET ed == DataEditor(dk1, edits)
                s3 == s2 \o <<"write_enter_stake", "data_editor", "button_run_model">>
                rm == IF trigger = "run_model" THEN RunModel(ed, draws) ELSE NoRun
            IN  Rendered(s3 \o rm.rendered, "completed", dk1, ed, rm)

\* ------------------------- the session ---------------------------------
LineInputs == {"", "5.5"}

\* the widgets' values on the first run: date_input today, the first game,
\* empty text inputs, the first market, number_input(step=1) at 0
Defaults ==
    [slate_date |-> 1, choice |-> 1, player |-> "", market |-> "K", line |-> "", odds |-> 0]

\* random.uniform is called once per row, and only when the evaluation runs
DrawsFor(trigger) ==
    IF trigger = "run_model" THEN [1 .. MaxRows -> EvalDraws]
    ELSE {[i \in 1 .. MaxRows |-> TRUE_P_LO]}

\* Streamlit re-runs the script: the widget values wv, the clicked button (true in
\* this run only) and the editor's pending edits go in, the run's output comes out
Rerun(wv, trigger, edits, keep) ==
    \E f \in FetchOutcomes, d \in DrawsFor(trigger) :
        LET r == Main(f, wv, trigger, edits, d)
        IN  /\ w' = [wv EXCEPT !.choice = IF f.ok /\ wv.choice > f.games /\ f.games > 0
                                          THEN 1 ELSE wv.choice]
            /\ clicked' = trigger
            /\ fetched' = f
            /\ outcome' = r.outcome
            /\ screen' = r.screen
            /\ dk_df' = r.dk_df
            /\ edited_df' = r.edited_df
            /\ results' = r.results
            /\ total_risk' = r.total_risk
            /\ added' = IF ~keep THEN <<>>
                        ELSE IF trigger = "add_prop" /\ r.outcome = "completed"
                        THEN Append(added, wv.odds)
                        ELSE added
            /\ UNCHANGED <<df_has_append, out>>

Shown(el) == \E i \in 1 .. Len(screen) : screen[i] = el

Init ==
    /\ df_has_append \in BOOLEAN
    /\ w = Defaults
    /\ clicked = "none"
    /\ fetched = [ok |-> TRUE, games |-> 0]
    /\ outcome = "not_run"
    /\ screen = <<>>
    /\ dk_df = <<>>
    /\ edited_df = <<>>
    /\ results = <<>>
    /\ total_risk = FZero
    /\ added = <<>>
    /\ out = None

OpenApp ==
    /\ outcome = "not_run"
    /\ Rerun(Defaults, "none", <<>>, FALSE)

ChooseDate ==
    /\ Shown("date_input")
    /\ \E d \in Dates \ {w.slate_date} :
          Rerun([w EXCEPT !.slate_date = d], "none", edited_df, FALSE)

SelectGame ==
    /\ Shown("selectbox_game")
    /\ \E g \in (1 .. fetched.games) \ {w.choice} :
          Rerun([w EXCEPT !.choice = g], "none", edited_df, FALSE)

EnterPlayer ==
    /\ Shown("text_input_player")
    /\ \E x \in PlayerInputs \ {w.player} :
          Rerun([w EXCEPT !.player = x], "none", edited_df, TRUE)

SelectMarket ==
    /\ Shown("selectbox_market")
    /\ \E x \in MarketInputs \ {w.market} :
          Rerun([w EXCEPT !.market = x], "none", edited_df, TRUE)

EnterLine ==
    /\ Shown("text_input_line")
    /\ \E x \in LineInputs \ {w.line} :
          Rerun([w EXCEPT !.line = x], "none", edited_df, TRUE)

EnterOdds ==
    /\ Shown("number_input_odds")
    /\ \E x \in SessionOdds \ {w.odds} :
          Rerun([w EXCEPT !.odds = x], "none", edited_df, TRUE)

ClickAddProp ==
    /\ Shown("button_add_prop")
    /\ Len(added) < MaxAdds
    /\ Rerun(w, "add_prop", edited_df, TRUE)

\* the user edits a stake cell of the editor, or adds a row (num_rows="dynamic")
EditEditor ==
    /\ Shown("data_editor")
    /\ \/ \E i \in 1 .. Len(edited_df), s \in StakeInputs \ {0} :
             Rerun(w, "none", [edited_df EXCEPT ![i].stake = s], TRUE)
       \/ /\ Len(edited_df) < MaxRows
          /\ \E s \in StakeInputs, o \in EvalOdds :
                Rerun(w, "none",
                      Append(edited_df, [player |-> "", market |-> "K", line |-> "",
                                         odds |-> o, stake |-> s]), TRUE)

ClickRunModel ==
    /\ Shown("button_run_model")
    /\ Rerun(w, "run_model", edited_df, TRUE)

Next ==
    \/ OpenApp
    \/ ChooseDate
    \/ SelectGame
    \/ EnterPlayer
    \/ SelectMarket
    \/ EnterLine
    \/ EnterOdds
    \/ ClickAddProp
    \/ EditEditor
    \/ ClickRunModel

Spec == Init /\ [][Next]_vars

\* ------------------ the evaluation over any batch ----------------------
\* the tables the editor can hand to the evaluation: up to MaxRows rows, each with
\* its odds and the stake the user typed
EvalRows ==
    {[player |-> "Cole", market |-> "K", line |-> "5.5", odds |-> o, stake |-> s] :
        o \in EvalOdds, s \in StakeInputs}

Batches == UNION {[1 .. n -> EvalRows] : n \in 0 .. MaxRows}

InitEval ==
    /\ df_has_append = TRUE
    /\ w = Defaults
    /\ clicked = "none"
    /\ fetched = [ok |-> TRUE, games |-> 1]
    /\ outcome = "completed"
    /\ edited_df \in Batches
    /\ dk_df = [i \in 1 .. Len(edited_df) |-> PropRow(edited_df[i])]
    /\ screen = <<"write_enter_stake", "data_editor", "button_run_model">>
    /\ results = <<>>
    /\ total_risk = FZero
    /\ added = <<>>
    /\ out = None

\* "Run Model" is clicked with edited_df in the editor: lines 120-133 run
EvalRun ==
    /\ clicked = "none"
    /\ \E d \in DrawsFor("run_model") :
          LET rm == RunModel(edited_df, d)
          IN  /\ clicked' = "run_model"
              /\ results' = rm.results
              /\ total_risk' = rm.total_risk
              /\ screen' = screen \o rm.rendered
    /\ UNCHANGED <<df_has_append, w, fetched, outcome, dk_df, edited_df, added, out>>

SpecEval == InitEval /\ [][EvalRun]_vars

\* ---------------------- dummy_edge_calc alone --------------------------
InitCalc ==
    /\ df_has_append = TRUE
    /\ w = Defaults
    /\ clicked = "none"
    /\ fetched = [ok |-> TRUE, games |-> 1]
    /\ outcome = "completed"
    /\ edited_df = <<>>
    /\ dk_df = <<>>
    /\ screen = <<>>
    /\ results = <<>>
    /\ total_risk = FZero
    /\ added = <<>>
    /\ out = None

\* dummy_edge_calc is called on a row with odds o, and random.uniform draws p
CallDummyEdgeCalc ==
    /\ out = None
    /\ \E o \in OddsInputs, p \in TrueProbDraws : out' = DummyEdgeCalc(o, p)
    /\ UNCHANGED <<df_has_append, w, clicked, fetched, outcome, screen, dk_df,
                   edited_df, results, total_risk, added>>

SpecCalc == InitCalc /\ [][CallDummyEdgeCalc]_vars

\* ============================ claims ===================================
RECURSIVE SumStakes(_, _)
SumStakes(df, n) == IF n = 0 THEN 0 ELSE SumStakes(df, n - 1) + df[n].stake

Ran == clicked = "run_model"

\* C1: a wager whose American odds are 0 is rejected with InvalidOddsError:
\* dummy_edge_calc never returns a computed (true_prob, edge) pair for odds = 0.
C1_ZeroOddsRejected ==
    out.kind # "none" => (out.odds = 0 => out.kind = "InvalidOddsError")

\* C7: for every nonzero odds o the break-even probability dummy_edge_calc uses
\* is 100/(o+100) when o > 0 and |o|/(|o|+100) when o < 0, and lies strictly
\* between 0 and 1.
C7_BreakEven ==
    (out.kind = "returned" /\ out.odds # 0) =>
        LET o == out.odds
            n == out.be[1]
            d == out.be[2]
        IN  /\ d > 0
            /\ o > 0 => n * (o + 100) = 100 * d
            /\ o < 0 => n * ((-o) + 100) = (-o) * d
            /\ 0 < n
            /\ n < d

C7_Witness ==
    /\ out.kind = "returned"
    /\ out.odds = -120
    /\ out.be[1] * 220 = 120 * out.be[2]

\* C8: for nonzero odds and every draw p in [0.45, 0.65], dummy_edge_calc returns
\* (round(p*100, 1), round((p - be)*100, 1)): each returned value is within half a
\* tenth of a percent of the exact value computed from the same p, and the
\* returned true probability is within [45.0, 65.0] percent.
C8_EdgeFromSameDraw ==
    (out.kind = "returned" /\ out.odds # 0) =>
        LET o == out.odds
            p == out.true_p
            bn == IF o > 0 THEN 100 ELSE -o
            bd == IF o > 0 THEN o + 100 ELSE (-o) + 100
            x == p * bd - 10000 * bn
        IN  /\ 450 <= out.true_prob_pct
            /\ out.true_prob_pct <= 650
            /\ 2 * Abs(10 * out.true_prob_pct - p) <= 10
            /\ 2 * Abs(out.edge_pct * 10 * bd - x) <= 10 * bd

C8_Witness ==
    /\ out.kind = "returned"
    /\ out.odds = 150
    /\ out.true_p = 5500
    /\ out.true_prob_pct = 550
    /\ out.edge_pct = 150

\* C2: in a Run Model evaluation the slate-cap warning is emitted if and only if
\* the sum over the batch of stake x unit cap (0.01) is strictly greater than the
\* slate cap (0.05), that is iff the stakes sum to more than 5 units = 80 sixteenths:
\* a batch exactly at the cap does not warn.
C2_WarnIffAboveCap ==
    Ran => (Shown("warning") <=> SumStakes(edited_df, Len(edited_df)) > 80)

\* C4: in every Run Model evaluation, warned or not, every wager of the batch is
\* evaluated and the results table (one row per wager, in order) is shown; a
\* warning only ever follows the results.
C4_ResultsAlwaysShown ==
    Ran =>
        /\ Len(results) = Len(edited_df)
        /\ \A i \in 1 .. Len(edited_df) :
              /\ results[i].odds = edited_df[i].odds
              /\ results[i].stake = edited_df[i].stake
              /\ results[i].player = edited_df[i].player
        /\ Shown("dataframe_results")
        /\ \A i \in 1 .. Len(screen) :
              screen[i] = "warning" =>
                  \E j \in 1 .. i - 1 : screen[j] = "dataframe_results"

C4_Witness ==
    /\ Ran
    /\ Shown("warning")
    /\ Shown("dataframe_results")
    /\ Len(results) = 3

\* C9: in every Run Model evaluation each contributing wager has stake >= 0 and
\* the total slate risk, their sum times the unit cap, is never negative.
C9_StakesNonNegative ==
    Ran =>
        /\ \A i \in 1 .. Len(edited_df) : edited_df[i].stake >= 0
        /\ ~total_risk.neg

\* C5: when the schedule fetch returns zero games, main reports an error and
\* halts the run: no game selection, no market-data pull, no manual entry, no
\* evaluation.
C5_EmptyScheduleHalts ==
    (outcome # "not_run" /\ fetched.ok /\ fetched.games = 0) =>
        /\ outcome = "returned"
        /\ Shown("error")
        /\ screen[Len(screen)] = "error"
        /\ ~Shown("selectbox_game")
        /\ ~Shown("info")
        /\ ~Shown("button_add_prop")
        /\ ~Shown("data_editor")
        /\ ~Shown("dataframe_results")
        /\ dk_df = <<>>
        /\ results = <<>>

\* a run triggered by "Add prop" whose schedule came back empty
C5_Witness ==
    /\ clicked = "add_prop"
    /\ fetched.ok
    /\ fetched.games = 0
    /\ outcome = "returned"
    /\ Shown("error")

\* C6: when the schedule request times out or fails, main ends the run in a
\* user-visible error outcome, as for an empty schedule, not in an unhandled
\* failure.
C6_FetchFailureSurfaced ==
    (outcome # "not_run" /\ ~fetched.ok) => (outcome = "returned" /\ Shown("error"))

\* C3: in the run caused by "Run Model" after a manually entered wager was
\* offered, the evaluation runs and its results are shown.
C3_RunModelShowsResults ==
    (Ran /\ fetched.ok /\ fetched.games > 0) => Shown("dataframe_results")

\* C10: after n "Add prop" actions for one date and game the batch offered for
\* evaluation holds all n wagers in the order they were added.
C10_AllAddedOffered ==
    (clicked = "add_prop" /\ outcome = "completed" /\ fetched.ok /\ fetched.games > 0) =>
        [i \in 1 .. Len(dk_df) |-> dk_df[i].odds] = added

====
